---- MODULE Spec2Model ----
(***************************************************************************)
(* Model of the timeblock domain core: TimeOfDay (src/data/timeofday.rs)   *)
(* and Block / BlockBuilder / BlockError (src/data/block.rs).              *)
(*                                                                         *)
(* One builder and the Block it yields are followed through their life:    *)
(* Block::builder(), the five fluent setters in any order and any number   *)
(* of times, build() (which consumes the builder), then the four mutators  *)
(* of the Block.  `call` records the last operation with its arguments,    *)
(* `result` what it returned and `log` the diagnostics it emitted.         *)
(***************************************************************************)
EXTENDS Integers, Sequences, FiniteSets, TLC

VARIABLES builder, block, call, result, log

vars == <<builder, block, call, result, log>>

----------------------------------------------------------------------------
(* Bounds of the model *)

\* hours tried on TimeOfDay::new itself are 0..MaxHourArg (and BigArgs)
MaxHourArg == 25
\* minutes tried on TimeOfDay::new itself are 0..MaxMinuteArg (and BigArgs)
MaxMinuteArg == 61
\* minute counts tried on TryFrom<u16> are 0..MaxRaw (and BigArgs)
MaxRaw == 1441
\* longest Vec<TimeOfDay> that is sorted
MaxLen == 3

\* hours handed to TimeOfDay::new by the caller are 0..MaxHour
MaxHour == 1
\* minutes handed to TimeOfDay::new by the caller are 0..MaxMinute
MaxMinute == 1

\* width of u16
U16 == 65536

----------------------------------------------------------------------------
(* Option<T>: None is the empty tuple, Some(v) the one-element tuple *)

None == <<>>
Some(v) == <<v>>
IsSome(o) == o # None
Unwrap(o) == o[1]

(* Result<(), BlockError> *)
Ok == <<"Ok">>
Err(e) == <<"Err", e>>

(* enum BlockError *)
InvalidTime(start, end) == <<"InvalidTime", start, end>>
MissingRequiredField(field) == <<"MissingRequiredField", field>>
FixedBlockTimeChange == <<"FixedBlockTimeChange">>
EmptyName == <<"EmptyName">>

----------------------------------------------------------------------------
(* TimeOfDay(u16): a value is represented by its minute count; the derived *)
(* PartialOrd/Ord is the order of that count.                              *)

\* faulty variant: hour 24 is let through
TimeOfDay_new_HourOffByOne(hour, minute) ==
    IF hour > 24 \/ minute > 59
      THEN None
      ELSE Some((hour * 60 + minute) % U16)

\* TimeOfDay::new: None (and an error! diagnostic) if hour > 23 or
\* minute > 59, otherwise Some(TimeOfDay(hour * 60 + minute)) in u16
TimeOfDay_new(hour, minute) ==
    IF hour > 23 \/ minute > 59
      THEN None
      ELSE Some((hour * 60 + minute) % U16)

\* the TimeOfDay values the callers of the builder and of set_time hold
Times == { Unwrap(TimeOfDay_new(h, m)) :
             h \in {x \in 0..MaxHour : IsSome(TimeOfDay_new(x, 0))},
             m \in {y \in 0..MaxMinute : IsSome(TimeOfDay_new(0, y))} }

\* the diagnostic of TimeOfDay::new
InvalidTimeLog == "Invalid time"

\* TimeOfDay::hour
TimeOfDay_hour(self) == self \div 60

\* faulty variant: minute() divides as hour() does
TimeOfDay_minute_AsHour(self) == self \div 60

\* TimeOfDay::minute
TimeOfDay_minute(self) == self % 60

\* From<TimeOfDay> for u16: t.0, the minute count that represents t
u16_from(t) == t

\* Result<TimeOfDay, ()>
OkTime(t) == <<"Ok", t>>
Unit == <<>>

\* faulty variant: 1440 is let through
TimeOfDay_try_from_OffByOne(u) ==
    IF u > 24 * 60
      THEN Err(Unit)
      ELSE OkTime(u)

\* TryFrom<u16> for TimeOfDay
TimeOfDay_try_from(u) ==
    IF u >= 24 * 60
      THEN Err(Unit)
      ELSE OkTime(u)

\* the characters '0'..'9'
Digits == <<"0", "1", "2", "3", "4", "5", "6", "7", "8", "9">>

\* an unsigned integer in decimal, as the formatter writes it
RECURSIVE Decimal(_)
Decimal(n) ==
    IF n < 10
      THEN <<Digits[n + 1]>>
      ELSE Append(Decimal(n \div 10), Digits[(n % 10) + 1])

\* the format spec {:02}: decimal, padded with '0' to at least two places
Pad02(n) ==
    IF Len(Decimal(n)) < 2
      THEN <<"0">> \o Decimal(n)
      ELSE Decimal(n)

\* faulty variant: the format string is "{}:{}"
TimeOfDay_fmt_NoPad(self) ==
    Decimal(TimeOfDay_hour(self)) \o <<":">> \o Decimal(TimeOfDay_minute(self))

\* Display for TimeOfDay: "{:02}:{:02}" of hour() and minute()
TimeOfDay_fmt(self) ==
    Pad02(TimeOfDay_hour(self)) \o <<":">> \o Pad02(TimeOfDay_minute(self))

\* faulty variant: the minute of the hour is compared before the hour
TimeOfDay_cmp_MinuteFirst(a, b) ==
    LET ka == <<a % 60, a \div 60>>
        kb == <<b % 60, b \div 60>>
    IN IF ka[1] < kb[1] \/ (ka[1] = kb[1] /\ ka[2] < kb[2]) THEN "Less"
       ELSE IF ka = kb THEN "Equal"
       ELSE "Greater"

\* the derived Ord of TimeOfDay(u16): the order of the u16 field
TimeOfDay_cmp(a, b) ==
    IF a < b THEN "Less"
    ELSE IF a = b THEN "Equal"
    ELSE "Greater"

\* the derived PartialEq of TimeOfDay(u16)
TimeOfDay_eq(a, b) == a = b

\* one element put into a sorted Vec, after the elements not greater
RECURSIVE Insert(_, _)
Insert(v, t) ==
    IF v = <<>> THEN <<t>>
    ELSE IF TimeOfDay_cmp(t, Head(v)) = "Less" THEN <<t>> \o v
    ELSE <<Head(v)>> \o Insert(Tail(v), t)

\* Vec<TimeOfDay>::sort: the stable sort by Ord
RECURSIVE Sort(_)
Sort(v) ==
    IF v = <<>> THEN <<>>
    ELSE Insert(Sort(SubSeq(v, 1, Len(v) - 1)), v[Len(v)])

\* the strings the callers pass as names (String, possibly empty)
Names == {"", "Meeting", "Lunch"}

\* the Option<String> values the callers pass as descriptions
Descriptions == {None, Some("Planning")}

\* String::is_empty
is_empty(s) == s = ""

----------------------------------------------------------------------------
(* struct Block / its mutators *)

Block(start_time, end_time, name, description, is_fixed) ==
    [start_time |-> start_time, end_time |-> end_time, name |-> name,
     description |-> description, is_fixed |-> is_fixed]

\* faulty variant: the range check is left out
Block_set_time_NoRangeCheck(self, start_time, end_time) ==
    IF self.is_fixed
      THEN [self |-> self, result |-> Err(FixedBlockTimeChange)]
      ELSE [self |-> [self EXCEPT !.start_time = start_time,
                                  !.end_time = end_time],
            result |-> Ok]

\* faulty variant: the fixed check is left out
Block_set_time_NoFixedCheck(self, start_time, end_time) ==
    IF start_time >= end_time
      THEN [self |-> self, result |-> Err(InvalidTime(start_time, end_time))]
      ELSE [self |-> [self EXCEPT !.start_time = start_time,
                                  !.end_time = end_time],
            result |-> Ok]

\* faulty variant: the fixed check has the wrong polarity
Block_set_time_FixedInverted(self, start_time, end_time) ==
    IF start_time >= end_time
      THEN [self |-> self, result |-> Err(InvalidTime(start_time, end_time))]
    ELSE IF ~self.is_fixed
      THEN [self |-> self, result |-> Err(FixedBlockTimeChange)]
    ELSE [self |-> [self EXCEPT !.start_time = start_time,
                                !.end_time = end_time],
          result |-> Ok]

\* faulty variant: the fixed check comes before the range check
Block_set_time_FixedFirst(self, start_time, end_time) ==
    IF self.is_fixed
      THEN [self |-> self, result |-> Err(FixedBlockTimeChange)]
    ELSE IF start_time >= end_time
      THEN [self |-> self, result |-> Err(InvalidTime(start_time, end_time))]
    ELSE [self |-> [self EXCEPT !.start_time = start_time,
                                !.end_time = end_time],
          result |-> Ok]

\* faulty variant: start_time is assigned before the fixed check
Block_set_time_PartialUpdate(self, start_time, end_time) ==
    IF start_time >= end_time
      THEN [self |-> self, result |-> Err(InvalidTime(start_time, end_time))]
    ELSE IF self.is_fixed
      THEN [self |-> [self EXCEPT !.start_time = start_time],
            result |-> Err(FixedBlockTimeChange)]
    ELSE [self |-> [self EXCEPT !.start_time = start_time,
                                !.end_time = end_time],
          result |-> Ok]

\* Block::set_time: the range check comes first, then the fixed check,
\* then both fields are assigned
Block_set_time(self, start_time, end_time) ==
    IF start_time >= end_time
      THEN [self |-> self, result |-> Err(InvalidTime(start_time, end_time))]
    ELSE IF self.is_fixed
      THEN [self |-> self, result |-> Err(FixedBlockTimeChange)]
    ELSE [self |-> [self EXCEPT !.start_time = start_time,
                                !.end_time = end_time],
          result |-> Ok]

\* faulty variant: the name is assigned before it is checked
Block_set_name_AssignFirst(self, name) ==
    IF is_empty(name)
      THEN [self |-> [self EXCEPT !.name = name], result |-> Err(EmptyName)]
      ELSE [self |-> [self EXCEPT !.name = name], result |-> Ok]

\* Block::set_name
Block_set_name(self, name) ==
    IF is_empty(name)
      THEN [self |-> self, result |-> Err(EmptyName)]
      ELSE [self |-> [self EXCEPT !.name = name], result |-> Ok]

\* faulty variant: a None argument leaves the description as it was
Block_set_description_NoClear(self, description) ==
    IF IsSome(description)
      THEN [self EXCEPT !.description = description]
      ELSE self

\* Block::set_description
Block_set_description(self, description) ==
    [self EXCEPT !.description = description]

\* faulty variant: the flag can be raised but not lowered
Block_set_is_fixed_OnlyLock(self, is_fixed) ==
    [self EXCEPT !.is_fixed = self.is_fixed \/ is_fixed]

\* Block::set_is_fixed
Block_set_is_fixed(self, is_fixed) ==
    [self EXCEPT !.is_fixed = is_fixed]

----------------------------------------------------------------------------
(* struct BlockBuilder: every field is an Option (description a nested one) *)

BlockBuilder_new ==
    [start_time |-> None, end_time |-> None, name |-> None,
     description |-> None, is_fixed |-> None]

BlockBuilder_start_time(self, start_time) ==
    [self EXCEPT !.start_time = Some(start_time)]

BlockBuilder_end_time(self, end_time) ==
    [self EXCEPT !.end_time = Some(end_time)]

\* faulty variant: a name already set is kept
BlockBuilder_name_FirstWins(self, name) ==
    IF IsSome(self.name)
      THEN self
      ELSE [self EXCEPT !.name = Some(name)]

BlockBuilder_name(self, name) ==
    [self EXCEPT !.name = Some(name)]

BlockBuilder_description(self, description) ==
    [self EXCEPT !.description = Some(description)]

BlockBuilder_is_fixed(self, is_fixed) ==
    [self EXCEPT !.is_fixed = Some(is_fixed)]

\* the diagnostic of build(): the argument block of unwrap_or is evaluated
\* before unwrap_or is called, so warn! runs whenever line 144 is reached
IsFixedWarning == "is_fixed defaulted"

\* the part of build() after the three required fields were unwrapped
BuildChecked(self, invalid) ==
    LET start_time == Unwrap(self.start_time)
        end_time == Unwrap(self.end_time)
    IN IF invalid
         THEN [block |-> None, log |-> <<IsFixedWarning>>,
               result |-> Err(InvalidTime(start_time, end_time))]
         ELSE [block |-> Some(Block(start_time, end_time, Unwrap(self.name),
                                    IF IsSome(self.description)
                                      THEN Unwrap(self.description) ELSE None,
                                    IF IsSome(self.is_fixed)
                                      THEN Unwrap(self.is_fixed) ELSE FALSE)),
               log |-> <<IsFixedWarning>>,
               result |-> Ok]

\* faulty variant: name is looked at before start_time and end_time
BlockBuilder_build_NameFirst(self) ==
    IF ~IsSome(self.name)
      THEN [block |-> None, log |-> <<>>,
            result |-> Err(MissingRequiredField("name"))]
    ELSE IF ~IsSome(self.start_time)
      THEN [block |-> None, log |-> <<>>,
            result |-> Err(MissingRequiredField("start_time"))]
    ELSE IF ~IsSome(self.end_time)
      THEN [block |-> None, log |-> <<>>,
            result |-> Err(MissingRequiredField("end_time"))]
    ELSE BuildChecked(self, Unwrap(self.start_time) >= Unwrap(self.end_time))

\* faulty variant: the range check is start_time > end_time
BlockBuilder_build_StrictGt(self) ==
    IF ~IsSome(self.start_time)
      THEN [block |-> None, log |-> <<>>,
            result |-> Err(MissingRequiredField("start_time"))]
    ELSE IF ~IsSome(self.end_time)
      THEN [block |-> None, log |-> <<>>,
            result |-> Err(MissingRequiredField("end_time"))]
    ELSE IF ~IsSome(self.name)
      THEN [block |-> None, log |-> <<>>,
            result |-> Err(MissingRequiredField("name"))]
    ELSE BuildChecked(self, Unwrap(self.start_time) > Unwrap(self.end_time))

\* faulty variant: is_fixed defaults to true
BlockBuilder_build_DefaultFixed(self) ==
    IF ~IsSome(self.start_time)
      THEN [block |-> None, log |-> <<>>,
            result |-> Err(MissingRequiredField("start_time"))]
    ELSE IF ~IsSome(self.end_time)
      THEN [block |-> None, log |-> <<>>,
            result |-> Err(MissingRequiredField("end_time"))]
    ELSE IF ~IsSome(self.name)
      THEN [block |-> None, log |-> <<>>,
            result |-> Err(MissingRequiredField("name"))]
    ELSE LET start_time == Unwrap(self.start_time)
             end_time == Unwrap(self.end_time)
         IN IF start_time >= end_time
              THEN [block |-> None, log |-> <<IsFixedWarning>>,
                    result |-> Err(InvalidTime(start_time, end_time))]
              ELSE [block |-> Some(Block(start_time, end_time,
                                         Unwrap(self.name),
                                         IF IsSome(self.description)
                                           THEN Unwrap(self.description)
                                           ELSE None,
                                         IF IsSome(self.is_fixed)
                                           THEN Unwrap(self.is_fixed)
                                           ELSE TRUE)),
                    log |-> <<IsFixedWarning>>,
                    result |-> Ok]

\* BlockBuilder::build: the three ok_or(..)? in order, the two defaults,
\* the range check, then the Block.  No check of the name's content.
BlockBuilder_build(self) ==
    IF ~IsSome(self.start_time)
      THEN [block |-> None, log |-> <<>>,
            result |-> Err(MissingRequiredField("start_time"))]
    ELSE IF ~IsSome(self.end_time)
      THEN [block |-> None, log |-> <<>>,
            result |-> Err(MissingRequiredField("end_time"))]
    ELSE IF ~IsSome(self.name)
      THEN [block |-> None, log |-> <<>>,
            result |-> Err(MissingRequiredField("name"))]
    ELSE LET start_time == Unwrap(self.start_time)
             end_time == Unwrap(self.end_time)
             name == Unwrap(self.name)
             description == IF IsSome(self.description)
                              THEN Unwrap(self.description) ELSE None
             is_fixed == IF IsSome(self.is_fixed)
                           THEN Unwrap(self.is_fixed) ELSE FALSE
         IN IF start_time >= end_time
              THEN [block |-> None, log |-> <<IsFixedWarning>>,
                    result |-> Err(InvalidTime(start_time, end_time))]
              ELSE [block |-> Some(Block(start_time, end_time, name,
                                         description, is_fixed)),
                    log |-> <<IsFixedWarning>>,
                    result |-> Ok]

----------------------------------------------------------------------------
(* The state machine *)

Init ==
    /\ builder = Some(BlockBuilder_new)
    /\ block = None
    /\ call = <<"builder">>
    /\ result = Ok
    /\ log = <<>>

\* Block::builder(): a fresh builder; the previous Block, if any, is dropped
NewBuilder ==
    /\ builder = None
    /\ builder' = Some(BlockBuilder_new)
    /\ block' = None
    /\ call' = <<"builder">>
    /\ result' = Ok
    /\ log' = <<>>

SetStartTime ==
    /\ IsSome(builder)
    /\ \E t \in Times :
         /\ builder' = Some(BlockBuilder_start_time(Unwrap(builder), t))
         /\ call' = <<"start_time", t>>
    /\ result' = Ok
    /\ log' = <<>>
    /\ UNCHANGED block

SetEndTime ==
    /\ IsSome(builder)
    /\ \E t \in Times :
         /\ builder' = Some(BlockBuilder_end_time(Unwrap(builder), t))
         /\ call' = <<"end_time", t>>
    /\ result' = Ok
    /\ log' = <<>>
    /\ UNCHANGED block

SetBuilderName ==
    /\ IsSome(builder)
    /\ \E n \in Names :
         /\ builder' = Some(BlockBuilder_name(Unwrap(builder), n))
         /\ call' = <<"name", n>>
    /\ result' = Ok
    /\ log' = <<>>
    /\ UNCHANGED block

SetBuilderDescription ==
    /\ IsSome(builder)
    /\ \E d \in Descriptions :
         /\ builder' = Some(BlockBuilder_description(Unwrap(builder), d))
         /\ call' = <<"description", d>>
    /\ result' = Ok
    /\ log' = <<>>
    /\ UNCHANGED block

SetBuilderIsFixed ==
    /\ IsSome(builder)
    /\ \E b \in BOOLEAN :
         /\ builder' = Some(BlockBuilder_is_fixed(Unwrap(builder), b))
         /\ call' = <<"is_fixed", b>>
    /\ result' = Ok
    /\ log' = <<>>
    /\ UNCHANGED block

\* build(self) consumes the builder
Build ==
    /\ IsSome(builder)
    /\ LET r == BlockBuilder_build(Unwrap(builder))
       IN /\ block' = r.block
          /\ result' = r.result
          /\ log' = r.log
    /\ call' = <<"build", Unwrap(builder)>>
    /\ builder' = None

SetTime ==
    /\ IsSome(block)
    /\ \E s \in Times, e \in Times :
         LET r == Block_set_time(Unwrap(block), s, e)
         IN /\ block' = Some(r.self)
            /\ result' = r.result
            /\ call' = <<"set_time", s, e>>
    /\ log' = <<>>
    /\ UNCHANGED builder

SetName ==
    /\ IsSome(block)
    /\ \E n \in Names :
         LET r == Block_set_name(Unwrap(block), n)
         IN /\ block' = Some(r.self)
            /\ result' = r.result
            /\ call' = <<"set_name", n>>
    /\ log' = <<>>
    /\ UNCHANGED builder

SetDescription ==
    /\ IsSome(block)
    /\ \E d \in Descriptions :
         /\ block' = Some(Block_set_description(Unwrap(block), d))
         /\ call' = <<"set_description", d>>
    /\ result' = Ok
    /\ log' = <<>>
    /\ UNCHANGED builder

SetIsFixed ==
    /\ IsSome(block)
    /\ \E b \in BOOLEAN :
         /\ block' = Some(Block_set_is_fixed(Unwrap(block), b))
         /\ call' = <<"set_is_fixed", b>>
    /\ result' = Ok
    /\ log' = <<>>
    /\ UNCHANGED builder

Next ==
    \/ NewBuilder
    \/ SetStartTime
    \/ SetEndTime
    \/ SetBuilderName
    \/ SetBuilderDescription
    \/ SetBuilderIsFixed
    \/ Build
    \/ SetTime
    \/ SetName
    \/ SetDescription
    \/ SetIsFixed

Spec == Init /\ [][Next]_vars

----------------------------------------------------------------------------
(* TimeOfDay on its own: each step is one call of the TimeOfDay API on     *)
(* arguments drawn from the sets below; no builder and no Block exist.     *)

\* u16 arguments far outside the clock range; 1093 * 60 exceeds u16
BigArgs == {100, 1092, 1093, U16 - 1}

HourArgs == (0..MaxHourArg) \cup BigArgs
MinuteArgs == (0..MaxMinuteArg) \cup BigArgs
RawArgs == (0..MaxRaw) \cup BigArgs

\* every TimeOfDay that new or try_from hands out on these arguments
ValidTimes ==
    { Unwrap(TimeOfDay_new(h, m)) :
        h \in {x \in HourArgs : IsSome(TimeOfDay_new(x, 0))},
        m \in {y \in MinuteArgs : IsSome(TimeOfDay_new(0, y))} }
    \cup { TimeOfDay_try_from(u)[2] :
             u \in {x \in RawArgs : TimeOfDay_try_from(x)[1] = "Ok"} }

\* the (hour, minute) pairs whose TimeOfDay values are compared
CmpHours == (0..MaxHour) \cup {23}
CmpMinutes == (0..MaxMinute) \cup {59}

\* the vector of the ordering test: 12:00, 01:30, 00:45, 23:59
ExampleVec == <<720, 90, 45, 1439>>

\* the vectors that are sorted
SortArgs ==
    UNION { [1..n -> Times] : n \in 0..MaxLen } \cup {ExampleVec}

\* the calls that are made, each with its arguments
TimeCalls ==
    { <<"new", hour, minute>> : hour \in HourArgs, minute \in MinuteArgs }
    \cup { <<"try_from", u>> : u \in RawArgs }
    \cup { <<"hour_minute", hour, minute>> :
             hour \in {x \in HourArgs : IsSome(TimeOfDay_new(x, 0))},
             minute \in {y \in MinuteArgs : IsSome(TimeOfDay_new(0, y))} }
    \cup { <<"from_try_from", t>> : t \in ValidTimes }
    \cup { <<"try_from_from", u>> : u \in RawArgs }
    \cup { <<"fmt", t>> : t \in ValidTimes }
    \cup { <<"cmp", <<h1, m1>>, <<h2, m2>>>> :
             h1 \in CmpHours, m1 \in CmpMinutes,
             h2 \in CmpHours, m2 \in CmpMinutes }
    \cup { <<"sort", v>> : v \in SortArgs }

\* a call is chosen; it has not run yet
TimeInit ==
    /\ builder = None
    /\ block = None
    /\ call \in { <<"args", c>> : c \in TimeCalls }
    /\ result = None
    /\ log = <<>>

\* the chosen call is op and is about to run
Chosen(op) == call[1] = "args" /\ call[2][1] = op

\* TimeOfDay::new(hour, minute)
TimeNew ==
    /\ Chosen("new")
    /\ call' = call[2]
    /\ result' = TimeOfDay_new(call[2][2], call[2][3])
    /\ log' = IF IsSome(TimeOfDay_new(call[2][2], call[2][3]))
                THEN <<>> ELSE <<InvalidTimeLog>>
    /\ UNCHANGED <<builder, block>>

\* TimeOfDay::try_from(u)
TimeTryFrom ==
    /\ Chosen("try_from")
    /\ call' = call[2]
    /\ result' = TimeOfDay_try_from(call[2][2])
    /\ log' = <<>>
    /\ UNCHANGED <<builder, block>>

\* TimeOfDay::new(hour, minute).unwrap(), then hour() and minute()
TimeAccessors ==
    /\ Chosen("hour_minute")
    /\ IsSome(TimeOfDay_new(call[2][2], call[2][3]))
    /\ call' = call[2]
    /\ LET t == Unwrap(TimeOfDay_new(call[2][2], call[2][3]))
       IN result' = <<TimeOfDay_hour(t), TimeOfDay_minute(t)>>
    /\ log' = <<>>
    /\ UNCHANGED <<builder, block>>

\* u16::from(t), then TimeOfDay::try_from of that
TimeFromTryFrom ==
    /\ Chosen("from_try_from")
    /\ call' = call[2]
    /\ result' = <<u16_from(call[2][2]),
                   TimeOfDay_try_from(u16_from(call[2][2]))>>
    /\ log' = <<>>
    /\ UNCHANGED <<builder, block>>

\* TimeOfDay::try_from(u), then u16::from of the value if there is one
TimeTryFromFrom ==
    /\ Chosen("try_from_from")
    /\ call' = call[2]
    /\ result' = IF TimeOfDay_try_from(call[2][2])[1] = "Ok"
                   THEN Some(u16_from(TimeOfDay_try_from(call[2][2])[2]))
                   ELSE None
    /\ log' = <<>>
    /\ UNCHANGED <<builder, block>>

\* format!("{}", t)
TimeFmt ==
    /\ Chosen("fmt")
    /\ call' = call[2]
    /\ result' = TimeOfDay_fmt(call[2][2])
    /\ log' = <<>>
    /\ UNCHANGED <<builder, block>>

\* new(h1, m1).unwrap() compared with new(h2, m2).unwrap(): cmp and ==
TimeCmp ==
    /\ Chosen("cmp")
    /\ LET a == TimeOfDay_new(call[2][2][1], call[2][2][2])
           b == TimeOfDay_new(call[2][3][1], call[2][3][2])
       IN /\ IsSome(a)
          /\ IsSome(b)
          /\ result' = <<TimeOfDay_cmp(Unwrap(a), Unwrap(b)),
                         TimeOfDay_eq(Unwrap(a), Unwrap(b))>>
    /\ call' = call[2]
    /\ log' = <<>>
    /\ UNCHANGED <<builder, block>>

\* v.sort()
TimeSort ==
    /\ Chosen("sort")
    /\ call' = call[2]
    /\ result' = Sort(call[2][2])
    /\ log' = <<>>
    /\ UNCHANGED <<builder, block>>

TimeNext ==
    \/ TimeNew
    \/ TimeTryFrom
    \/ TimeAccessors
    \/ TimeFromTryFrom
    \/ TimeTryFromFrom
    \/ TimeFmt
    \/ TimeCmp
    \/ TimeSort

TimeSpec == TimeInit /\ [][TimeNext]_vars

----------------------------------------------------------------------------
(* Properties *)

\* the operation of the step is the Block mutator op, called on the Block
\* of the state before the step
MutatorStep(op) == IsSome(block) /\ IsSome(block') /\ call'[1] = op

\* start_time and end_time of the Block are the same before and after
RangeUnchanged ==
    /\ Unwrap(block').start_time = Unwrap(block).start_time
    /\ Unwrap(block').end_time = Unwrap(block).end_time

\* C1: every Block that exists (built, then mutated by any sequence of
\* set_time, set_name, set_description, set_is_fixed calls, succeeding or
\* failing) has start_time < end_time strictly.
RangeInvariant ==
    IsSome(block) => Unwrap(block).start_time < Unwrap(block).end_time

\* a non-fixed Block on which set_time was called with start >= end
RangeInvariantWitness ==
    /\ IsSome(block)
    /\ call[1] = "set_time"
    /\ call[2] >= call[3]
    /\ ~Unwrap(block).is_fixed

\* C2: the name of a Block is never empty, after build() for every name
\* given to the builder (the empty string included) and after every
\* sequence of mutator calls.
NameNeverEmpty ==
    IsSome(block) => Unwrap(block).name # ""

\* C3: build() on a builder with start_time < end_time and name("") set
\* returns Err(EmptyName) and produces no Block.
BuildEmptyNameFails ==
    (/\ call[1] = "build"
     /\ IsSome(call[2].start_time)
     /\ IsSome(call[2].end_time)
     /\ IsSome(call[2].name)
     /\ Unwrap(call[2].start_time) < Unwrap(call[2].end_time)
     /\ Unwrap(call[2].name) = "")
    => (result = Err(EmptyName) /\ block = None)

\* C4 as stated: on a fixed Block every set_time(s, e), also with s >= e,
\* fails with FixedBlockTimeChange and leaves start_time and end_time
\* unchanged.
FixedSetTimeAlwaysFixedError ==
    [][(MutatorStep("set_time") /\ Unwrap(block).is_fixed)
       => (result' = Err(FixedBlockTimeChange) /\ RangeUnchanged)]_vars

\* C4 as amended: on a fixed Block every set_time(s, e) fails and leaves
\* start_time and end_time unchanged; the error is FixedBlockTimeChange
\* when s < e and InvalidTime(s, e) when s >= e.
FixedSetTimeFails ==
    [][(MutatorStep("set_time") /\ Unwrap(block).is_fixed)
       => (/\ result' = (IF call'[2] < call'[3]
                           THEN Err(FixedBlockTimeChange)
                           ELSE Err(InvalidTime(call'[2], call'[3])))
           /\ RangeUnchanged)]_vars

\* a fixed Block on which set_time was rejected with FixedBlockTimeChange
FixedSetTimeFailsWitness ==
    /\ IsSome(block)
    /\ Unwrap(block).is_fixed
    /\ call[1] = "set_time"
    /\ call[2] < call[3]
    /\ result = Err(FixedBlockTimeChange)

\* C5: in every step, if is_fixed is true before a mutator call (set_time,
\* set_name, set_description, set_is_fixed, any arguments), start_time and
\* end_time are the same before and after it; set_is_fixed still changes
\* the flag.
RangeFrozenWhileFixed ==
    [][(IsSome(block) /\ IsSome(block') /\ Unwrap(block).is_fixed)
       => (/\ RangeUnchanged
           /\ call'[1] = "set_is_fixed"
                => Unwrap(block').is_fixed = call'[2])]_vars

\* a fixed Block that kept its range when set_time was called with a
\* valid range other than its own
RangeFrozenWhileFixedWitness ==
    /\ IsSome(block)
    /\ Unwrap(block).is_fixed
    /\ call[1] = "set_time"
    /\ call[2] < call[3]
    /\ <<call[2], call[3]>> #
         <<Unwrap(block).start_time, Unwrap(block).end_time>>

\* C6: set_time(s, e) with s >= e fails with InvalidTime carrying exactly
\* the proposed pair, on every Block, fixed or not.
SetTimeInvalidRange ==
    (IsSome(block) /\ call[1] = "set_time" /\ call[2] >= call[3])
    => result = Err(InvalidTime(call[2], call[3]))

\* a fixed Block on which set_time with s >= e reported InvalidTime(s, e)
SetTimeInvalidRangeWitness ==
    /\ IsSome(block)
    /\ Unwrap(block).is_fixed
    /\ call[1] = "set_time"
    /\ call[2] >= call[3]
    /\ result = Err(InvalidTime(call[2], call[3]))

\* C7: set_time(s, e) is atomic: either it returns Ok and start_time = s,
\* end_time = e, or it returns Err and both are as before; name,
\* description and is_fixed are unchanged either way; on a non-fixed Block
\* with s < e it returns Ok.
SetTimeAtomic ==
    [][MutatorStep("set_time")
       => LET old == Unwrap(block)
              new == Unwrap(block')
              s == call'[2]
              e == call'[3]
          IN /\ \/ /\ result' = Ok
                   /\ new.start_time = s
                   /\ new.end_time = e
                \/ /\ result'[1] = "Err"
                   /\ RangeUnchanged
             /\ new.name = old.name
             /\ new.description = old.description
             /\ new.is_fixed = old.is_fixed
             /\ (~old.is_fixed /\ s < e) => result' = Ok]_vars

\* a Block whose range was replaced by a successful set_time
SetTimeAtomicWitness ==
    /\ IsSome(block)
    /\ call[1] = "set_time"
    /\ result = Ok
    /\ Unwrap(block).start_time = call[2]
    /\ Unwrap(block).end_time = call[3]

\* C8: set_name("") fails with EmptyName and leaves every field of the
\* Block as it was; set_name(n) with non-empty n succeeds and afterwards
\* name() = n.
SetNameContract ==
    [][MutatorStep("set_name")
       => IF call'[2] = ""
            THEN result' = Err(EmptyName) /\ block' = block
            ELSE result' = Ok /\ Unwrap(block').name = call'[2]]_vars

\* a Block with a name on which set_name("") was rejected
SetNameContractWitness ==
    /\ IsSome(block)
    /\ call = <<"set_name", "">>
    /\ result = Err(EmptyName)
    /\ Unwrap(block).name # ""

\* the required fields in the order build() reports them
RequiredFields == <<"start_time", "end_time", "name">>

\* C9: if a required field was never set, build() fails with
\* MissingRequiredField(f), f the first never-set field in the order
\* start_time, end_time, name, whatever the order of the setter calls and
\* whether or not the times form a valid range; InvalidTime is returned
\* only when all three are present.
MissingFieldReporting ==
    call[1] = "build"
    => LET self == call[2]
           missing == {i \in 1..3 : ~IsSome(self[RequiredFields[i]])}
       IN /\ missing # {}
               => \E i \in missing :
                    /\ \A j \in missing : i <= j
                    /\ result = Err(MissingRequiredField(RequiredFields[i]))
                    /\ block = None
          /\ (result[1] = "Err" /\ result[2][1] = "InvalidTime")
               => missing = {}

\* a build() that reported the missing name although the times given
\* were not a valid range
MissingFieldReportingWitness ==
    /\ call[1] = "build"
    /\ IsSome(call[2].start_time)
    /\ IsSome(call[2].end_time)
    /\ Unwrap(call[2].start_time) >= Unwrap(call[2].end_time)
    /\ ~IsSome(call[2].name)
    /\ result = Err(MissingRequiredField("name"))

\* C10: build() with the three required fields set and start_time >=
\* end_time fails with InvalidTime carrying exactly the supplied start and
\* end, whatever description and is_fixed were set to.
BuildInvalidRange ==
    (/\ call[1] = "build"
     /\ IsSome(call[2].start_time)
     /\ IsSome(call[2].end_time)
     /\ IsSome(call[2].name))
    => (Unwrap(call[2].start_time) >= Unwrap(call[2].end_time)
          => /\ result = Err(InvalidTime(Unwrap(call[2].start_time),
                                         Unwrap(call[2].end_time)))
             /\ block = None)

\* a build() with equal start and end, a description and is_fixed(true)
\* that reported InvalidTime
BuildInvalidRangeWitness ==
    /\ call[1] = "build"
    /\ IsSome(call[2].name)
    /\ IsSome(call[2].start_time)
    /\ call[2].start_time = call[2].end_time
    /\ call[2].description = Some(Some("Planning"))
    /\ call[2].is_fixed = Some(TRUE)
    /\ result = Err(InvalidTime(Unwrap(call[2].start_time),
                                Unwrap(call[2].end_time)))

\* C11: when start_time, end_time and name are set and start_time <
\* end_time, build() returns a Block whose start_time, end_time and name
\* are the values set, whose description is the value set or absent if
\* never set, and whose is_fixed is the value set or false if never set.
BuildSuccess ==
    (/\ call[1] = "build"
     /\ IsSome(call[2].start_time)
     /\ IsSome(call[2].end_time)
     /\ IsSome(call[2].name)
     /\ Unwrap(call[2].start_time) < Unwrap(call[2].end_time))
    => /\ result = Ok
       /\ IsSome(block)
       /\ Unwrap(block).start_time = Unwrap(call[2].start_time)
       /\ Unwrap(block).end_time = Unwrap(call[2].end_time)
       /\ Unwrap(block).name = Unwrap(call[2].name)
       /\ IF IsSome(call[2].description)
            THEN Unwrap(block).description = Unwrap(call[2].description)
            ELSE Unwrap(block).description = None
       /\ IF IsSome(call[2].is_fixed)
            THEN Unwrap(block).is_fixed = Unwrap(call[2].is_fixed)
            ELSE Unwrap(block).is_fixed = FALSE

\* a successful build() of a builder on which neither description nor
\* is_fixed was set
BuildSuccessWitness ==
    /\ call[1] = "build"
    /\ result = Ok
    /\ IsSome(block)
    /\ call[2].description = None
    /\ call[2].is_fixed = None

\* C12: set_description(d) and set_is_fixed(b) cannot fail: afterwards
\* description() = d (absent included), respectively is_fixed() = b, and
\* every other field is unchanged; set_is_fixed(true) validates nothing
\* and never alters start_time/end_time.
InfallibleSetters ==
    [][/\ MutatorStep("set_description")
            => /\ result' = Ok
               /\ Unwrap(block') =
                    [Unwrap(block) EXCEPT !.description = call'[2]]
       /\ MutatorStep("set_is_fixed")
            => /\ result' = Ok
               /\ Unwrap(block') =
                    [Unwrap(block) EXCEPT !.is_fixed = call'[2]]]_vars

\* a Block whose description was cleared by set_description(None)
InfallibleSettersWitness ==
    /\ IsSome(block)
    /\ call[1] = "set_description"
    /\ call[2] = None
    /\ Unwrap(block).description = None
    /\ result = Ok

\* C18: after set_is_fixed(false) the next set_time(s, e) with s < e
\* succeeds and installs (s, e), however often the Block was fixed or a
\* set_time was rejected before.
UnlockRestoresMutability ==
    [][(/\ MutatorStep("set_time")
        /\ call[1] = "set_is_fixed"
        /\ call[2] = FALSE
        /\ call'[2] < call'[3])
       => /\ result' = Ok
          /\ Unwrap(block').start_time = call'[2]
          /\ Unwrap(block').end_time = call'[3]]_vars

\* a Block just unlocked by set_is_fixed(false), the state the set_time
\* of the claim is called in
UnlockRestoresMutabilityWitness ==
    /\ IsSome(block)
    /\ call[1] = "set_is_fixed"
    /\ call[2] = FALSE
    /\ ~Unwrap(block).is_fixed

\* C19: build() emits the is_fixed-default diagnostic only when is_fixed
\* was defaulted: none when is_fixed was set explicitly, one when it was
\* never set and the three required fields are present.
DiagnosticOnlyWhenDefaulted ==
    call[1] = "build"
    => /\ IsSome(call[2].is_fixed) => log = <<>>
       /\ (/\ ~IsSome(call[2].is_fixed)
           /\ IsSome(call[2].start_time)
           /\ IsSome(call[2].end_time)
           /\ IsSome(call[2].name))
            => log = <<IsFixedWarning>>

\* the builder on which each set field was set once, to its final value
SetOnce(self) ==
    LET b0 == BlockBuilder_new
        b1 == IF IsSome(self.start_time)
                THEN BlockBuilder_start_time(b0, Unwrap(self.start_time))
                ELSE b0
        b2 == IF IsSome(self.end_time)
                THEN BlockBuilder_end_time(b1, Unwrap(self.end_time))
                ELSE b1
        b3 == IF IsSome(self.name)
                THEN BlockBuilder_name(b2, Unwrap(self.name))
                ELSE b2
        b4 == IF IsSome(self.description)
                THEN BlockBuilder_description(b3, Unwrap(self.description))
                ELSE b3
    IN IF IsSome(self.is_fixed)
         THEN BlockBuilder_is_fixed(b4, Unwrap(self.is_fixed))
         ELSE b4

\* the builder fields by the name of their setter
BuilderFields ==
    {"start_time", "end_time", "name", "description", "is_fixed"}

\* C20: the builder setters never validate and never fail: each one
\* stores its argument as the value of its field, whatever the builder
\* held, and leaves the other fields alone; build() then yields what it
\* yields on the builder that had each field set once to its final value.
SettersOverwrite ==
    [][IsSome(builder)
       => /\ call'[1] \in BuilderFields
               => /\ result' = Ok
                  /\ IsSome(builder')
                  /\ Unwrap(builder')[call'[1]] = Some(call'[2])
                  /\ \A f \in BuilderFields \ {call'[1]} :
                       Unwrap(builder')[f] = Unwrap(builder)[f]
          /\ call'[1] = "build"
               => LET r == BlockBuilder_build(SetOnce(Unwrap(builder)))
                  IN /\ result' = r.result
                     /\ block' = r.block]_vars

\* a builder whose end_time setter accepted a value not after start_time
SettersOverwriteWitness ==
    /\ IsSome(builder)
    /\ call[1] = "end_time"
    /\ IsSome(Unwrap(builder).start_time)
    /\ Unwrap(builder).end_time = Some(call[2])
    /\ Unwrap(Unwrap(builder).start_time) >= call[2]
    /\ result = Ok

\* C13: TimeOfDay::new(hour, minute) returns a value if and only if
\* hour <= 23 and minute <= 59, for u16 inputs; the value's minute count
\* is hour * 60 + minute, and otherwise the result is None.
NewAcceptsClockValues ==
    call[1] = "new"
    => IF call[2] <= 23 /\ call[3] <= 59
         THEN result = Some(call[2] * 60 + call[3])
         ELSE result = None

\* 23:59 accepted as minute 1439
NewAcceptsClockValuesWitness ==
    /\ call = <<"new", 23, 59>>
    /\ result = Some(1439)

\* C14: every TimeOfDay obtained from TimeOfDay::new or TryFrom<u16> has
\* a minute count in [0, 1439]; try_from(u) fails for every u >= 1440 and
\* no input whose hour * 60 + minute wraps in 16 bits yields a value.
TimeOfDayInRange ==
    /\ call[1] = "new"
         => /\ IsSome(result) => Unwrap(result) \in 0..1439
            /\ call[2] * 60 + call[3] >= U16 => result = None
    /\ call[1] = "try_from"
         => /\ result[1] = "Ok" => result[2] \in 0..1439
            /\ call[2] >= 1440 => result = Err(Unit)

\* new(1093, 0), whose product wraps to 00:44 in u16, was rejected
TimeOfDayInRangeWitness ==
    /\ call = <<"new", 1093, 0>>
    /\ (1093 * 60) % U16 \in 0..1439
    /\ result = None

\* C15: for (hour, minute) in [0,23] x [0,59], new(hour, minute) yields t
\* with t.hour() = hour and t.minute() = minute; for every valid t,
\* try_from(u16::from(t)) = Ok(t); for every u in [0,1439],
\* u16::from(try_from(u)) = u.
TimeRoundTrip ==
    /\ call[1] = "hour_minute"
         => result = <<call[2], call[3]>>
    /\ call[1] = "from_try_from"
         => result[2] = OkTime(call[2])
    /\ (call[1] = "try_from_from" /\ call[2] \in 0..1439)
         => result = Some(call[2])

\* 23:59 read back through hour() and minute()
TimeRoundTripWitness ==
    /\ call = <<"hour_minute", 23, 59>>
    /\ result = <<23, 59>>

\* (h1, m1) is before (h2, m2) on the clock
Before(p, q) == p[1] < q[1] \/ (p[1] = q[1] /\ p[2] < q[2])

\* number of places of v that hold t
Count(v, t) == Cardinality({i \in 1..Len(v) : v[i] = t})

\* C16: comparison and equality of TimeOfDay values are those of their
\* minute counts: new(h1,m1) < new(h2,m2) iff h1 < h2 or (h1 = h2 and
\* m1 < m2), new(h1,m1) = new(h2,m2) iff the pairs are equal, the order
\* is total, and sorting a collection yields it in non-decreasing order.
TimeOrdering ==
    /\ call[1] = "cmp"
         => /\ result[1] = "Less" <=> Before(call[2], call[3])
            /\ result[1] = "Greater" <=> Before(call[3], call[2])
            /\ result[1] = "Equal" <=> call[2] = call[3]
            /\ result[2] <=> call[2] = call[3]
    /\ call[1] = "sort"
         => /\ Len(result) = Len(call[2])
            /\ \A i \in 1..Len(result) :
                 Count(result, result[i]) = Count(call[2], result[i])
            /\ \A i \in 1..(Len(result) - 1) : result[i] <= result[i + 1]

\* 12:00, 01:30, 00:45, 23:59 sorted into 00:45, 01:30, 12:00, 23:59
TimeOrderingWitness ==
    /\ call = <<"sort", ExampleVec>>
    /\ result = <<45, 90, 720, 1439>>

\* C17: the textual form of a valid TimeOfDay is exactly five characters:
\* tens and units digit of the hour, ':', tens and units digit of the
\* minute; 90 minutes renders as "01:30"; distinct values render to
\* distinct strings.
TimeRendering ==
    call[1] = "fmt"
    => LET h == call[2] \div 60
           m == call[2] % 60
       IN /\ result = <<Digits[(h \div 10) + 1], Digits[(h % 10) + 1], ":",
                        Digits[(m \div 10) + 1], Digits[(m % 10) + 1]>>
          /\ call[2] = 90 => result = <<"0", "1", ":", "3", "0">>
          /\ \A t \in ValidTimes \ {call[2]} : TimeOfDay_fmt(t) # result

\* 01:30 rendered
TimeRenderingWitness ==
    /\ call = <<"fmt", 90>>
    /\ result = <<"0", "1", ":", "3", "0">>

====
